---- MODULE Spec2Model ----
(***************************************************************************)
(* A model of the JSON parser of src/json_parser.c: the parser state, the  *)
(* scanner primitives, the mutually recursive parse functions run on an    *)
(* explicit call stack, the heap of malloc'ed blocks, the destructor and   *)
(* the member lookup.                                                      *)
(*                                                                         *)
(* Bytes are one-character strings.  data is the input buffer; C's         *)
(* data[i] is data[i + 1] here.  A pointer is the index of a block in      *)
(* heap; NULL is 0.  A freed block stays in heap with live = FALSE, so a   *)
(* second free of it, or a block never freed, can be told.                 *)
(***************************************************************************)
EXTENDS Integers, Sequences, FiniteSets, TLC

VARIABLES
    data,       \* json_parser_state.data: the input buffer
    len,        \* json_parser_state.len
    pos,        \* json_parser_state.pos: the cursor
    error,      \* json_parser_state.error: the failure flag
    heap,       \* the blocks obtained from malloc/calloc, freed ones included
    stack,      \* the call stack of parse functions, innermost frame last
    ret,        \* the value returned by the function that returned last
    phase,      \* "idle", "parsing", "returned" (parse_json is back), "released"
    result,     \* what parse_json returned to its caller
    found,      \* the caller's last json_object_lookup: [done, key, value]
    oob_read,   \* some read of data[i] had i >= len
    bad_free,   \* number of free() calls on a block that was not live
    bad_store   \* some store was past the end of its block (array storage, string)

vars == <<data, len, pos, error, heap, stack, ret, phase, result, found,
          oob_read, bad_free, bad_store>>

NULL == 0

\* ------------------------------------------------------------------ bounds
\* Every input of at most MaxLen bytes over ShortAlphabet is parsed.
MaxLen == 3
\* Generated object literals have at most MaxMembers members.
MaxMembers == 3
\* Generated array literals have at most MaxElems elements.
MaxElems == 33

\* ------------------------------------------------------------------- bytes
QUOTE == "\""
BSL == "\\"

Nums == <<"0", "1", "2", "3", "4", "5", "6", "7", "8", "9">>

isdigit(c) == \E i \in 1..10 : Nums[i] = c

DigitVal(c) == (CHOOSE i \in 1..10 : Nums[i] = c) - 1

isspace(c) == c \in {" ", "\t", "\n", "\r", "\f"}

\* ------------------------------------------------------ scanner primitives
\* The primitives act on the cursor and the flag: s = [pos, error].  Each
\* returns the new [pos, error]; the C return value is ~error of it.
S == [pos |-> pos, error |-> error]

check_end(s) == [s EXCEPT !.error = (s.pos >= len)]

expect_char(s, check) ==
    LET s1 == check_end(s) IN
    IF s1.error THEN s1
    ELSE LET e == data[s1.pos + 1] # check IN
         [pos |-> IF e THEN s1.pos ELSE s1.pos + 1, error |-> e]

RECURSIVE parse_ws(_)
parse_ws(s) ==
    IF s.pos < len /\ isspace(data[s.pos + 1])
    THEN parse_ws([s EXCEPT !.pos = @ + 1])
    ELSE s

\* -------------------------------------------------------------------- heap
ValueBlock(t) == [kind |-> "value", live |-> TRUE, type |-> t, u |-> 0]
MemberBlock(k, v) ==
    [kind |-> "member", live |-> TRUE, key |-> k, value |-> v, next |-> NULL]
ArrayBlock == [kind |-> "array", live |-> TRUE, values |-> NULL, size |-> 0]
StorageBlock(n) == [kind |-> "storage", live |-> TRUE, cells |-> [i \in 1..n |-> NULL]]
StringBlock(cs) == [kind |-> "string", live |-> TRUE, chars |-> cs]

\* malloc/calloc: a fresh block; its address is the next index of the heap.
malloc(mem, blk) == [mem |-> Append(mem, blk), ptr |-> Len(mem) + 1]

\* free(p) on h = [mem, bad]: free(NULL) does nothing; freeing a block that
\* is not live is counted in bad.
free(h, p) ==
    IF p = NULL THEN h
    ELSE IF p \in 1..Len(h.mem) /\ h.mem[p].live
         THEN [h EXCEPT !.mem[p].live = FALSE]
         ELSE [h EXCEPT !.bad = @ + 1]

H == [mem |-> heap, bad |-> bad_free]

create_json_value(mem) == malloc(mem, ValueBlock("ERROR"))

\* -------------------------------------------------------------- destructor
RECURSIVE free_json_value(_, _)
RECURSIVE free_json_object(_, _)
RECURSIVE free_elements(_, _, _, _)

free_json_object(h, object) ==
    IF object = NULL THEN h
    ELSE LET h1 == free(h, h.mem[object].key)
             h2 == free_json_value(h1, h1.mem[object].value)
             h3 == free_json_object(h2, h2.mem[object].next)
         IN free(h3, object)

\* the loop of free_json_array: free_json_value(values[i]) for i in from..size-1
\* (the test on h1.bad only orders the evaluation: each element is freed
\* before the loop goes on to the next)
free_elements(h, values, i, size) ==
    IF i < size
    THEN LET h1 == free_json_value(h, h.mem[values].cells[i + 1]) IN
         IF h1.bad >= h.bad THEN free_elements(h1, values, i + 1, size) ELSE h1
    ELSE h

\* free_json_array without free(array->values)
free_json_array_leak(h, array) ==
    IF array = NULL THEN h
    ELSE LET a == h.mem[array]
             h1 == free_elements(h, a.values, 0, a.size)
         IN free(h1, array)

free_json_array(h, array) ==
    IF array = NULL THEN h
    ELSE LET a == h.mem[array]
             h1 == free_elements(h, a.values, 0, a.size)
             h2 == free(h1, h1.mem[array].values)
         IN free(h2, array)

free_json_value(h, value) ==
    IF value = NULL THEN h
    ELSE LET v == h.mem[value]
             h1 == CASE v.type = "OBJECT" -> free_json_object(h, v.u)
                     [] v.type = "ARRAY" -> free_json_array(h, v.u)
                     [] v.type = "STRING" -> free(h, v.u)
                     [] OTHER -> h
         IN free(h1, value)

\* ------------------------------------------------------------ leaf parsers
\* first pass of parse_string: count the bytes up to the closing quote
RECURSIVE count_chars(_, _)
count_chars(p, count) ==
    IF p < len /\ data[p + 1] # QUOTE
    THEN count_chars((IF data[p + 1] = BSL THEN p + 1 ELSE p) + 1, count + 1)
    ELSE [pos |-> p, count |-> count]

\* second pass of parse_string: copy the bytes into the buffer of count + 1
\* bytes.  Its reads are not guarded by pos < len: a read at or past len is
\* recorded in oob, a write past the end of the buffer in ovf.
RECURSIVE copy_chars(_, _, _)
copy_chars(p, chars, count) ==
    IF p >= len THEN [pos |-> p, chars |-> chars, oob |-> TRUE, ovf |-> FALSE]
    ELSE IF data[p + 1] # QUOTE
    THEN LET q == IF data[p + 1] = BSL THEN p + 1 ELSE p IN
         IF q >= len THEN [pos |-> q, chars |-> chars, oob |-> TRUE, ovf |-> FALSE]
         ELSE IF Len(chars) > count
         THEN [pos |-> q, chars |-> chars, oob |-> FALSE, ovf |-> TRUE]
         ELSE copy_chars(q + 1, Append(chars, data[q + 1]), count)
    ELSE [pos |-> p, chars |-> chars, oob |-> FALSE, ovf |-> FALSE]

\* parse_string: [s, mem, ret, oob, ovf], ret the string block or NULL
parse_string(s, mem) ==
    LET s1 == expect_char(s, QUOTE)
        none == [s |-> s1, mem |-> mem, ret |-> NULL, oob |-> FALSE, ovf |-> FALSE]
    IN
    IF s1.error THEN none
    ELSE LET start_pos == s1.pos
             c == count_chars(start_pos, 0)
             s2 == check_end([pos |-> c.pos, error |-> s1.error])
         IN IF s2.error THEN [none EXCEPT !.s = s2]
            ELSE LET k == copy_chars(start_pos, <<>>, c.count)
                     \* string[count] = '\0' ends the string
                     m == malloc(mem, StringBlock(SubSeq(k.chars, 1, c.count)))
                     s3 == expect_char([pos |-> k.pos, error |-> s2.error], QUOTE)
                 IN IF s3.error
                    THEN [s |-> s3, mem |-> free([mem |-> m.mem, bad |-> 0], m.ptr).mem,
                          ret |-> NULL, oob |-> k.oob, ovf |-> k.ovf]
                    ELSE [s |-> s3, mem |-> m.mem, ret |-> m.ptr, oob |-> k.oob,
                          ovf |-> k.ovf]

RECURSIVE digits(_, _)
digits(p, num) ==
    IF p < len /\ isdigit(data[p + 1])
    THEN digits(p + 1, num * 10 + DigitVal(data[p + 1]))
    ELSE [pos |-> p, num |-> num]

\* parse_int: [s, ret]
parse_int(s) ==
    LET s1 == check_end(s) IN
    IF s1.error THEN [s |-> s1, ret |-> 0]
    ELSE LET negative == data[s1.pos + 1] = "-"
             s2 == check_end([s1 EXCEPT !.pos = IF negative THEN @ + 1 ELSE @])
         IN IF s2.error THEN [s |-> s2, ret |-> 0]
            ELSE IF ~isdigit(data[s2.pos + 1])
            THEN [s |-> [s2 EXCEPT !.error = TRUE], ret |-> 0]
            ELSE LET d == digits(s2.pos, 0) IN
                 [s |-> [s2 EXCEPT !.pos = d.pos],
                  ret |-> IF negative THEN d.num * (-1) ELSE d.num]

\* ------------------------------------------------------------------ lookup
RECURSIVE strcmp(_, _)
\* 0 when the two strings are equal byte for byte, non-zero otherwise
strcmp(a, b) ==
    IF a = <<>> /\ b = <<>> THEN 0
    ELSE IF a = <<>> THEN -1
    ELSE IF b = <<>> THEN 1
    ELSE IF Head(a) # Head(b) THEN 1
    ELSE strcmp(Tail(a), Tail(b))

RECURSIVE lookup_loop(_, _, _)
\* a loop that keeps going after a match: the last matching member wins
lookup_loop_last(mem, curr, key) ==
    IF curr = NULL THEN NULL
    ELSE LET later == lookup_loop(mem, mem[curr].next, key) IN
         IF later # NULL THEN later
         ELSE IF strcmp(mem[mem[curr].key].chars, key) = 0 THEN mem[curr].value
         ELSE NULL

lookup_loop(mem, curr, key) ==
    IF curr = NULL THEN NULL
    ELSE IF strcmp(mem[mem[curr].key].chars, key) = 0 THEN mem[curr].value
    ELSE lookup_loop(mem, mem[curr].next, key)

json_object_lookup(mem, object_value, key) ==
    IF mem[object_value].type # "OBJECT" THEN NULL
    ELSE lookup_loop(mem, mem[object_value].u, key)

\* -------------------------------------------------------------- call stack
JFrame == [fn |-> "parse_json", pc |-> "J1"]
VFrame == [fn |-> "parse_value", pc |-> "V1", value |-> NULL]
EFrame == [fn |-> "parse_element", pc |-> "E1", value |-> NULL]
MFrame == [fn |-> "parse_member", pc |-> "M1", key |-> NULL, value |-> NULL]
OFrame == [fn |-> "parse_object", pc |-> "O1", head |-> NULL, curr |-> NULL]
AFrame == [fn |-> "parse_array", pc |-> "A1", array |-> NULL, capacity |-> 0]

Top == stack[Len(stack)]
Pop == SubSeq(stack, 1, Len(stack) - 1)
SetTop(f) == [stack EXCEPT ![Len(stack)] = f]

At(fn, pc) == phase = "parsing" /\ stack # <<>> /\ Top.fn = fn /\ Top.pc = pc

Return(v) == stack' = Pop /\ ret' = v
Goto(f) == stack' = SetTop(f) /\ ret' = ret
Call(f, callee) == stack' = Append(SetTop(f), callee) /\ ret' = ret

Scan(s) == pos' = s.pos /\ error' = s.error
Heap(h) == heap' = h.mem /\ bad_free' = h.bad

\* A read of data[i]: the byte when i < len; past the end of the buffer the
\* read is undefined and may yield any byte.
AnyByte == {"{", "}", "[", "]", QUOTE, ":", ",", " ", "t", "1"}
ReadAt(i) == IF i < len THEN {data[i + 1]} ELSE AnyByte

\* ----------------------------------------------------------- parse_element
parse_element_E1 ==
    /\ At("parse_element", "E1")
    /\ Scan(parse_ws(S))
    /\ Call([Top EXCEPT !.pc = "E2"], VFrame)
    /\ UNCHANGED <<data, len, heap, phase, result, found, oob_read, bad_free, bad_store>>

parse_element_E2 ==
    /\ At("parse_element", "E2")
    /\ IF error
       THEN /\ Heap(free_json_value(H, ret))
            /\ Return(NULL)
            /\ UNCHANGED <<pos, error>>
       ELSE /\ Scan(parse_ws(S))
            /\ Return(ret)
            /\ UNCHANGED <<heap, bad_free>>
    /\ UNCHANGED <<data, len, phase, result, found, oob_read, bad_store>>

parse_element == parse_element_E1 \/ parse_element_E2

\* ------------------------------------------------------------ parse_member
parse_member_M1 ==
    /\ At("parse_member", "M1")
    /\ LET r == parse_string(parse_ws(S), heap) IN
        /\ Scan(r.s)
        /\ heap' = r.mem
        /\ oob_read' = (oob_read \/ r.oob)
        /\ bad_store' = (bad_store \/ r.ovf)
        /\ Goto([Top EXCEPT !.pc = "M2", !.key = r.ret])
    /\ UNCHANGED <<data, len, phase, result, found, bad_free>>

\* parse_member going on after parse_string without looking at the flag
parse_member_M2_unchecked ==
    /\ At("parse_member", "M2")
    /\ LET s == expect_char(parse_ws(S), ":") IN
        /\ Scan(s)
        /\ IF s.error
           THEN Heap(free(H, Top.key)) /\ Return(NULL)
           ELSE UNCHANGED <<heap, bad_free>> /\ Call([Top EXCEPT !.pc = "M3"], EFrame)
    /\ UNCHANGED <<data, len, phase, result, found, oob_read, bad_store>>

parse_member_M2 ==
    /\ At("parse_member", "M2")
    /\ IF error
       THEN /\ Heap(free(H, Top.key))
            /\ Return(NULL)
            /\ UNCHANGED <<pos, error>>
       ELSE LET s == expect_char(parse_ws(S), ":") IN
            /\ Scan(s)
            /\ IF s.error
               THEN Heap(free(H, Top.key)) /\ Return(NULL)
               ELSE UNCHANGED <<heap, bad_free>> /\ Call([Top EXCEPT !.pc = "M3"], EFrame)
    /\ UNCHANGED <<data, len, phase, result, found, oob_read, bad_store>>

parse_member_M3 ==
    /\ At("parse_member", "M3")
    /\ IF error
       THEN /\ Heap(free_json_value(free(H, Top.key), ret))
            /\ Return(NULL)
       ELSE LET m == malloc(heap, MemberBlock(Top.key, ret)) IN
            /\ heap' = m.mem
            /\ bad_free' = bad_free
            /\ Return(m.ptr)
    /\ UNCHANGED <<data, len, pos, error, phase, result, found, oob_read, bad_store>>

parse_member == parse_member_M1 \/ parse_member_M2 \/ parse_member_M3

\* ------------------------------------------------------------ parse_object
parse_object_O1 ==
    /\ At("parse_object", "O1")
    /\ LET s1 == expect_char(S, "{")
           s2 == check_end(parse_ws(s1))
       IN IF s1.error THEN Scan(s1) /\ Return(NULL)
          ELSE IF s2.error THEN Scan(s2) /\ Return(NULL)
          ELSE IF data[s2.pos + 1] = "}"
          THEN Scan([s2 EXCEPT !.pos = @ + 1]) /\ Return(NULL)
          ELSE Scan(s2) /\ Call([Top EXCEPT !.pc = "O2"], MFrame)
    /\ UNCHANGED <<data, len, heap, phase, result, found, oob_read, bad_free, bad_store>>

parse_object_O2 ==
    /\ At("parse_object", "O2")
    /\ IF error
       THEN Heap(free_json_object(H, ret)) /\ Return(NULL)
       ELSE /\ UNCHANGED <<heap, bad_free>>
            /\ Goto([Top EXCEPT !.pc = "O3", !.head = ret, !.curr = ret])
    /\ UNCHANGED <<data, len, pos, error, phase, result, found, oob_read, bad_store>>

\* the loop of parse_object returning NULL on a missing ',' or '}' without
\* free_json_object(head)
parse_object_O3_leak ==
    /\ At("parse_object", "O3")
    /\ \E c \in ReadAt(pos) :
        LET s == expect_char(S, IF c # "}" THEN "," ELSE "}") IN
        /\ Scan(s)
        /\ IF s.error
           THEN Return(NULL)
           ELSE IF c # "}"
                THEN Call([Top EXCEPT !.pc = "O4"], MFrame)
                ELSE Return(Top.head)
    /\ oob_read' = (oob_read \/ pos >= len)
    /\ UNCHANGED <<data, len, heap, phase, result, found, bad_free, bad_store>>

parse_object_O3 ==
    /\ At("parse_object", "O3")
    /\ \E c \in ReadAt(pos) :
        LET s == expect_char(S, IF c # "}" THEN "," ELSE "}") IN
        /\ Scan(s)
        /\ IF s.error
           THEN Heap(free_json_object(H, Top.head)) /\ Return(NULL)
           ELSE /\ UNCHANGED <<heap, bad_free>>
                /\ IF c # "}"
                   THEN Call([Top EXCEPT !.pc = "O4"], MFrame)
                   ELSE Return(Top.head)
    /\ oob_read' = (oob_read \/ pos >= len)
    /\ UNCHANGED <<data, len, phase, result, found, bad_store>>

\* curr = curr->next, without the step: every member is linked to the head
next_curr_stay(mem, curr) == curr

next_curr(mem, curr) == mem[curr].next

parse_object_O4 ==
    /\ At("parse_object", "O4")
    /\ LET linked == [heap EXCEPT ![Top.curr].next = ret] IN
       IF error
       THEN Heap(free_json_object([mem |-> linked, bad |-> bad_free], Top.head))
            /\ Return(NULL)
       ELSE /\ heap' = linked
            /\ bad_free' = bad_free
            /\ Goto([Top EXCEPT !.pc = "O3", !.curr = next_curr(linked, Top.curr)])
    /\ UNCHANGED <<data, len, pos, error, phase, result, found, oob_read, bad_store>>

parse_object == parse_object_O1 \/ parse_object_O2 \/ parse_object_O3 \/ parse_object_O4

\* ------------------------------------------------------------- parse_array
InitialCapacity == 16

need_grow(size, capacity) == size = capacity

grown(capacity) == capacity * 2

\* calloc of the new storage and memcpy of the first size cells of the old one
\* a memcpy one cell short
copy_cells_short(old, size, capacity) ==
    [i \in 1..capacity |-> IF i < size THEN old[i] ELSE NULL]

copy_cells(old, size, capacity) ==
    [i \in 1..capacity |-> IF i <= size THEN old[i] ELSE NULL]

\* array->values[index] = value, on h = [mem, oob]: a store at an index at or
\* past the capacity of the storage is recorded in oob and changes no cell.
store(h, values, index, value) ==
    IF index < Len(h.mem[values].cells)
    THEN [h EXCEPT !.mem[values].cells[index + 1] = value]
    ELSE [h EXCEPT !.oob = TRUE]

parse_array_A1 ==
    /\ At("parse_array", "A1")
    /\ LET s1 == expect_char(S, "[")
           s2 == check_end(parse_ws(s1))
           a == malloc(heap, ArrayBlock)
           v == malloc(a.mem, StorageBlock(InitialCapacity))
       IN IF s1.error THEN Scan(s1) /\ Return(NULL) /\ heap' = heap
          ELSE IF s2.error THEN Scan(s2) /\ Return(NULL) /\ heap' = heap
          ELSE IF data[s2.pos + 1] = "]"
          THEN Scan([s2 EXCEPT !.pos = @ + 1]) /\ Return(a.ptr) /\ heap' = a.mem
          ELSE /\ Scan(s2)
               /\ heap' = [v.mem EXCEPT ![a.ptr].values = v.ptr]
               /\ Call([Top EXCEPT !.pc = "A2", !.array = a.ptr,
                                   !.capacity = InitialCapacity], EFrame)
    /\ UNCHANGED <<data, len, phase, result, found, oob_read, bad_free, bad_store>>

parse_array_A2 ==
    /\ At("parse_array", "A2")
    /\ LET array == Top.array
           h1 == store([mem |-> heap, oob |-> bad_store], heap[array].values, 0, ret)
           mem2 == [h1.mem EXCEPT ![array].size = 1]
       IN /\ bad_store' = h1.oob
          /\ IF error
             THEN Heap(free_json_array([mem |-> mem2, bad |-> bad_free], array))
                  /\ Return(NULL)
             ELSE /\ heap' = mem2
                  /\ bad_free' = bad_free
                  /\ Goto([Top EXCEPT !.pc = "A3"])
    /\ UNCHANGED <<data, len, pos, error, phase, result, found, oob_read>>

parse_array_A3 ==
    /\ At("parse_array", "A3")
    /\ \E c \in ReadAt(pos) :
        LET s == expect_char(S, IF c # "]" THEN "," ELSE "]") IN
        /\ Scan(s)
        /\ IF s.error
           THEN Heap(free_json_array(H, Top.array)) /\ Return(NULL)
           ELSE /\ UNCHANGED <<heap, bad_free>>
                /\ IF c # "]"
                   THEN Call([Top EXCEPT !.pc = "A4"], EFrame)
                   ELSE Return(Top.array)
    /\ oob_read' = (oob_read \/ pos >= len)
    /\ UNCHANGED <<data, len, phase, result, found, bad_store>>

parse_array_A4 ==
    /\ At("parse_array", "A4")
    /\ IF error
       THEN /\ Heap(free_json_array(free_json_value(H, ret), Top.array))
            /\ Return(NULL)
            /\ bad_store' = bad_store
       ELSE LET array == Top.array
                size == heap[array].size
                old == heap[array].values
                grow == need_grow(size, Top.capacity)
                capacity == IF grow THEN grown(Top.capacity) ELSE Top.capacity
                n == malloc(heap, [StorageBlock(capacity) EXCEPT
                                     !.cells = copy_cells(heap[old].cells, size, capacity)])
                h1 == free([mem |-> n.mem, bad |-> bad_free], old)
                mem2 == IF grow THEN [h1.mem EXCEPT ![array].values = n.ptr] ELSE heap
                bad2 == IF grow THEN h1.bad ELSE bad_free
                h3 == store([mem |-> mem2, oob |-> bad_store], mem2[array].values, size, ret)
            IN /\ heap' = [h3.mem EXCEPT ![array].size = size + 1]
               /\ bad_free' = bad2
               /\ bad_store' = h3.oob
               /\ Goto([Top EXCEPT !.pc = "A3", !.capacity = capacity])
    /\ UNCHANGED <<data, len, pos, error, phase, result, found, oob_read>>

parse_array == parse_array_A1 \/ parse_array_A2 \/ parse_array_A3 \/ parse_array_A4

\* ------------------------------------------------------------- parse_value
\* the bytes skipped for a literal: true, false, null
\* four bytes for every literal, false included
literal_skip_four(next_char) == 4

literal_skip(next_char) ==
    CASE next_char = "t" -> 4
      [] next_char = "f" -> 5
      [] next_char = "n" -> 4

literal_type(next_char) ==
    CASE next_char = "t" -> "TRUE"
      [] next_char = "f" -> "FALSE"
      [] next_char = "n" -> "NULL"

\* the end of parse_value: free the value and return NULL when the flag is set
value_or_null(h, err, value) ==
    IF err THEN [h |-> free_json_value(h, value), ret |-> NULL]
    ELSE [h |-> h, ret |-> value]

parse_value_V1 ==
    /\ At("parse_value", "V1")
    /\ LET s1 == check_end(S)
           m == create_json_value(heap)
           value == m.ptr
           next_char == data[s1.pos + 1]
           typed(t) == [m.mem EXCEPT ![value].type = t]
       IN IF s1.error
          THEN Scan(s1) /\ Return(NULL) /\ UNCHANGED <<heap, bad_free, oob_read, bad_store>>
          ELSE CASE next_char = "{" ->
                    /\ Scan(s1)
                    /\ heap' = typed("OBJECT")
                    /\ Call([Top EXCEPT !.pc = "V2", !.value = value], OFrame)
                    /\ UNCHANGED <<bad_free, oob_read, bad_store>>
                 [] next_char = "[" ->
                    /\ Scan(s1)
                    /\ heap' = typed("ARRAY")
                    /\ Call([Top EXCEPT !.pc = "V2", !.value = value], AFrame)
                    /\ UNCHANGED <<bad_free, oob_read, bad_store>>
                 [] next_char = QUOTE ->
                    LET r == parse_string(s1, typed("STRING"))
                        e == value_or_null([mem |-> [r.mem EXCEPT ![value].u = r.ret],
                                            bad |-> bad_free], r.s.error, value)
                    IN Scan(r.s) /\ Heap(e.h) /\ Return(e.ret)
                       /\ oob_read' = (oob_read \/ r.oob)
                       /\ bad_store' = (bad_store \/ r.ovf)
                 [] next_char \in {"t", "f", "n"} ->
                    LET e == value_or_null([mem |-> typed(literal_type(next_char)),
                                            bad |-> bad_free], s1.error, value)
                    IN Scan([s1 EXCEPT !.pos = @ + literal_skip(next_char)])
                       /\ Heap(e.h) /\ Return(e.ret) /\ UNCHANGED <<oob_read, bad_store>>
                 [] OTHER ->
                    LET r == parse_int(s1)
                        e == value_or_null([mem |-> [typed("INT") EXCEPT ![value].u = r.ret],
                                            bad |-> bad_free], r.s.error, value)
                    IN Scan(r.s) /\ Heap(e.h) /\ Return(e.ret) /\ UNCHANGED <<oob_read, bad_store>>
    /\ UNCHANGED <<data, len, phase, result, found>>

\* back from parse_object or parse_array: value->object / value->array = ret
parse_value_V2 ==
    /\ At("parse_value", "V2")
    /\ LET e == value_or_null([mem |-> [heap EXCEPT ![Top.value].u = ret],
                               bad |-> bad_free], error, Top.value)
       IN Heap(e.h) /\ Return(e.ret)
    /\ UNCHANGED <<data, len, pos, error, phase, result, found, oob_read, bad_store>>

parse_value == parse_value_V1 \/ parse_value_V2

\* -------------------------------------------------------------- parse_json
parse_json_call ==
    /\ phase = "idle"
    /\ phase' = "parsing"
    /\ pos' = 0
    /\ error' = FALSE
    /\ stack' = <<JFrame, VFrame>>
    /\ UNCHANGED <<data, len, heap, ret, result, found, oob_read, bad_free, bad_store>>

\* what parse_json returns, given the flag and parse_value's result
\* parse_json handing back parse_value's result whatever the flag
json_result_as_is(h, err, value) == [h |-> h, ret |-> value]

json_result(h, err, value) ==
    IF ~err THEN [h |-> h, ret |-> value]
    ELSE LET h1 == free_json_value(h, value)
             m == create_json_value(h1.mem)
         IN [h |-> [h1 EXCEPT !.mem = m.mem], ret |-> m.ptr]

parse_json_J1 ==
    /\ At("parse_json", "J1")
    /\ LET r == json_result(H, error, ret) IN
        /\ Heap(r.h)
        /\ result' = r.ret
    /\ phase' = "returned"
    /\ stack' = <<>>
    /\ UNCHANGED <<data, len, pos, error, ret, found, oob_read, bad_store>>

parse_json == parse_json_call \/ parse_json_J1

\* ------------------------------------------------------------- the caller
LookupKeys == {<<"a">>, <<"b">>}

Lookup ==
    /\ phase = "returned"
    /\ ~found.done
    /\ \E key \in LookupKeys :
        found' = [done |-> TRUE, key |-> key,
                  value |-> json_object_lookup(heap, result, key)]
    /\ UNCHANGED <<data, len, pos, error, heap, stack, ret, phase, result,
                   oob_read, bad_free, bad_store>>

Release ==
    /\ phase = "returned"
    /\ Heap(free_json_value(H, result))
    /\ phase' = "released"
    /\ UNCHANGED <<data, len, pos, error, stack, ret, result, found, oob_read, bad_store>>

\* ------------------------------------------------------------ JSON values
\* The value a tree of blocks stands for: [type, int, str, keys, kids].
\* An Object has keys[i] and kids[i] for its i-th member, an Array kids[i]
\* for its i-th element.
Tree(t) == [type |-> t, int |-> 0, str |-> <<>>, keys |-> <<>>, kids |-> <<>>]
TInt(n) == [Tree("INT") EXCEPT !.int = n]
TStr(cs) == [Tree("STRING") EXCEPT !.str = cs]
TArr(kids) == [Tree("ARRAY") EXCEPT !.kids = kids]
TObj(keys, kids) == [Tree("OBJECT") EXCEPT !.keys = keys, !.kids = kids]

\* the member blocks of a chain, in chain order
RECURSIVE Members(_, _)
Members(mem, object) ==
    IF object = NULL THEN <<>> ELSE <<object>> \o Members(mem, mem[object].next)

RECURSIVE TreeOf(_, _)
TreeOf(mem, value) ==
    IF value = NULL THEN Tree("ABSENT")
    ELSE LET v == mem[value] IN
         CASE v.type = "INT" -> TInt(v.u)
           [] v.type = "STRING" -> TStr(mem[v.u].chars)
           [] v.type = "ARRAY" ->
                TArr([i \in 1..mem[v.u].size |-> TreeOf(mem, mem[mem[v.u].values].cells[i])])
           [] v.type = "OBJECT" ->
                LET ms == Members(mem, v.u) IN
                TObj([i \in 1..Len(ms) |-> mem[mem[ms[i]].key].chars],
                     [i \in 1..Len(ms) |-> TreeOf(mem, mem[ms[i]].value)])
           [] OTHER -> Tree(v.type)

\* ---------------------------------------------------------- input literals
\* A literal is [text, tree]: the bytes and the value they denote.
IntLit(n) == [text |-> <<Nums[n + 1]>>, tree |-> TInt(n)]
Minus12 == [text |-> <<"-", "1", "2">>, tree |-> TInt(-12)]
StrLit(cs) == [text |-> <<QUOTE>> \o cs \o <<QUOTE>>, tree |-> TStr(cs)]
\* "b\"c": the backslash is dropped, the escaped quote is kept
EscLit == [text |-> <<QUOTE, "b", BSL, QUOTE, "c", QUOTE>>, tree |-> TStr(<<"b", QUOTE, "c">>)]
TrueLit == [text |-> <<"t", "r", "u", "e">>, tree |-> Tree("TRUE")]
FalseLit == [text |-> <<"f", "a", "l", "s", "e">>, tree |-> Tree("FALSE")]
NullLit == [text |-> <<"n", "u", "l", "l">>, tree |-> Tree("NULL")]

RECURSIVE Join(_, _)
Join(texts, sep) ==
    IF texts = <<>> THEN <<>>
    ELSE IF Len(texts) = 1 THEN texts[1]
    ELSE LET mid == Len(texts) \div 2 IN
         Join(SubSeq(texts, 1, mid), sep) \o sep \o Join(SubSeq(texts, mid + 1, Len(texts)), sep)

\* sp is the whitespace put around every token: <<>> or some blanks
ArrLit(ds, sp) ==
    [text |-> <<"[">> \o sp \o Join([i \in 1..Len(ds) |-> ds[i].text], sp \o <<",">> \o sp)
              \o sp \o <<"]">>,
     tree |-> TArr([i \in 1..Len(ds) |-> ds[i].tree])]

ObjLit(ks, ds, sp) ==
    [text |-> <<"{">> \o sp
              \o Join([i \in 1..Len(ds) |->
                         <<QUOTE>> \o ks[i] \o <<QUOTE>> \o sp \o <<":">> \o sp \o ds[i].text],
                      sp \o <<",">> \o sp)
              \o sp \o <<"}">>,
     tree |-> TObj(ks, [i \in 1..Len(ds) |-> ds[i].tree])]

Tight == <<>>
Spaced == <<" ">>

\* object literals of up to MaxMembers members, duplicate keys included
MemberKeys == {<<"a">>, <<"b">>}
MemberValues == {IntLit(1), ArrLit(<<StrLit(<<"b">>), TrueLit>>, Tight)}
ObjLits ==
    UNION {{ObjLit(ks, ds, sp) : ks \in [1..n -> MemberKeys], ds \in [1..n -> MemberValues],
                                 sp \in {Tight, Spaced}} : n \in 0..MaxMembers}

\* array literals of up to MaxElems elements: digits, or a mix of kinds
Elem(i, k) ==
    IF k = 1 THEN IntLit(i % 10)
    ELSE CASE i % 4 = 0 -> IntLit(i % 10)
           [] i % 4 = 1 -> StrLit(<<"a">>)
           [] i % 4 = 2 -> FalseLit
           [] OTHER -> ArrLit(<<>>, Tight)
ArrLits == {ArrLit([i \in 1..n |-> Elem(i, k)], Tight) : n \in 0..MaxElems, k \in 1..2}

\* nested literals, and every prefix and one-byte change of them
Seeds ==
    {ObjLit(<< <<"a">>, <<"b">> >>,
            <<ArrLit(<<IntLit(1), EscLit>>, Tight), ObjLit(<< <<"a">> >>, <<Minus12>>, Tight)>>,
            Tight),
     ArrLit(<<StrLit(<<"x">>), ObjLit(<< <<"a">> >>, <<NullLit>>, Tight),
              ArrLit(<<TrueLit, FalseLit>>, Tight)>>, Spaced)}
DamageBytes == {"}", "]", QUOTE, ",", ":", "x", " ", BSL}
Damaged(text) ==
    {SubSeq(text, 1, n) : n \in 0..Len(text)}
    \cup {[text EXCEPT ![i] = c] : i \in 1..Len(text), c \in DamageBytes}

\* a literal after leading whitespace
Blanks == {<<" ">>, <<"\n">>, <<" ", "\t">>}
Plain == {IntLit(4), Minus12, StrLit(<<"a">>), TrueLit, ObjLit(<<>>, <<>>, Tight),
          ArrLit(<<IntLit(1)>>, Tight)}
LedLits == {[text |-> w \o d.text, tree |-> d.tree] : w \in Blanks, d \in Plain}

\* t, f or n followed by bytes that do not spell the literal
Misspelt == {<<"t", "X", "X", "X">>, <<"f", "X", "X", "X", "X">>, <<"n", "X", "X", "X">>,
             <<"t", "r", "u", "e">>, <<"f", "a", "l", "s", "e">>, <<"n", "u", "l", "l">>,
             <<"[", "t", "]", "]", "]", "]">>, <<"[", "f", ",", ",", ",", ",", "]">>,
             <<"[", "n", "u", "l", "l", ",", "t", "X", "X", "X", "]">>}

\* every input of at most MaxLen bytes
ShortAlphabet == {"{", "}", "[", "]", QUOTE, ":", ",", " ", "t", "1", "-"}
ShortInputs == UNION {[1..n -> ShortAlphabet] : n \in 0..MaxLen}

Lits == ObjLits \cup ArrLits \cup Seeds \cup Plain
Inputs ==
    ShortInputs \cup {d.text : d \in Lits \cup LedLits} \cup Misspelt
    \cup UNION {Damaged(d.text) : d \in Seeds}

\* ---------------------------------------------------------------- the system
Init ==
    /\ data \in Inputs
    /\ len = Len(data)
    /\ pos = 0
    /\ error = FALSE
    /\ heap = <<>>
    /\ stack = <<>>
    /\ ret = NULL
    /\ phase = "idle"
    /\ result = NULL
    /\ found = [done |-> FALSE, key |-> <<>>, value |-> NULL]
    /\ oob_read = FALSE
    /\ bad_free = 0
    /\ bad_store = FALSE

Next ==
    \/ parse_json
    \/ parse_value
    \/ parse_element
    \/ parse_member
    \/ parse_object
    \/ parse_array
    \/ Lookup
    \/ Release

Spec == Init /\ [][Next]_vars

\* ------------------------------------------------------------------ claims
Live(mem) == {p \in 1..Len(mem) : mem[p].live}

Kinds(mem) == {mem[p].kind : p \in 1..Len(mem)}

\* C1: parse_json never returns NULL: with the flag clear it returns the value
\* parse_value built, with the flag set a freshly allocated Error value.
C1_NeverAbsent ==
    phase = "returned" =>
        /\ result \in 1..Len(heap)
        /\ heap[result].kind = "value"
        /\ heap[result].live
        /\ ~error => (result = ret /\ heap[result].type # "ERROR")
        /\ error => (heap[result].type = "ERROR" /\ result = Len(heap) /\ result # ret)

C1_Witness == phase = "returned" /\ error /\ result = Len(heap) /\ Len(heap) > 1

\* C2: when parse_json returns an Error value, every block allocated during
\* the parse has been freed exactly once; only the Error node is live.
C2_FailedParseFreesAll ==
    (phase = "returned" /\ error) => (Live(heap) = {result} /\ bad_free = 0)

C2_Witness ==
    /\ phase = "returned"
    /\ error
    /\ {"value", "member", "string", "array", "storage"} \subseteq Kinds(heap)

\* C3: one free_json_value on what parse_json returned frees every block
\* exactly once: no block is left live and none is freed twice.
C3_ReleaseFreesAll == phase = "released" => (Live(heap) = {} /\ bad_free = 0)

C3_Witness ==
    /\ phase = "released"
    /\ ~error
    /\ {"value", "member", "string", "array", "storage"} \subseteq Kinds(heap)

\* C4: leading whitespace before a well-formed value is skipped at the top
\* level, so the value parses as it does without the whitespace.
C4_LeadingWhitespace ==
    phase = "returned" =>
        \A d \in LedLits : data = d.text => (~error /\ TreeOf(heap, result) = d.tree)

\* the value of the first member of an Object value whose key is key
FirstOf(keys, kids, key) ==
    LET hits == {i \in 1..Len(keys) : keys[i] = key} IN
    IF hits = {} THEN Tree("ABSENT")
    ELSE kids[CHOOSE i \in hits : \A j \in hits : i <= j]

\* C5: json_object_lookup returns the value of the first member whose key is
\* the key, and NULL for a value that is no Object or has no such member.
C5_LookupFirstMatch ==
    (phase = "returned" /\ found.done) =>
        LET t == TreeOf(heap, result) IN
        /\ TreeOf(heap, found.value) = FirstOf(t.keys, t.kids, found.key)
        /\ t.type # "OBJECT" => found.value = NULL
        /\ \A d \in ObjLits : data = d.text =>
             TreeOf(heap, found.value) = FirstOf(d.tree.keys, d.tree.kids, found.key)

\* a lookup of a key that two members with different values carry
C5_Witness ==
    /\ phase = "returned"
    /\ found.done
    /\ LET t == TreeOf(heap, result) IN
       \E i, j \in 1..Len(t.keys) :
          /\ i < j
          /\ t.keys[i] = found.key
          /\ t.keys[j] = found.key
          /\ t.kids[i] # t.kids[j]

\* C6: a valid object literal of n >= 0 members parses to an Object whose
\* i-th member has the key and the value of the i-th member of the text.
C6_MembersInSourceOrder ==
    phase = "returned" =>
        \A d \in ObjLits \cup Seeds : data = d.text =>
            (~error /\ TreeOf(heap, result) = d.tree)

C6_Witness ==
    /\ phase = "returned"
    /\ \E d \in ObjLits :
          /\ data = d.text
          /\ Len(d.tree.keys) = MaxMembers
          /\ d.tree.kids[1] # d.tree.kids[MaxMembers]
          /\ TreeOf(heap, result) = d.tree

\* the parse_array frames that hold an array under construction
Building == {i \in 1..Len(stack) : stack[i].fn = "parse_array" /\ stack[i].pc \in {"A3", "A4"}}

RECURSIVE Pow2(_)
Pow2(n) == IF n = 0 THEN 1 ELSE 2 * Pow2(n - 1)

\* C7: a valid array literal of n elements parses to an Array of size n whose
\* i-th element is the i-th element of the text; no element is stored at or
\* past the capacity, and the capacity is 16 doubled each time the count
\* reached it, the elements so far carried over in order.
C7_ArrayElements ==
    /\ ~bad_store
    /\ \A i \in Building :
         LET a == heap[stack[i].array]
             capacity == stack[i].capacity
         IN /\ a.size <= capacity
            /\ Len(heap[a.values].cells) = capacity
            /\ \E k \in 0..8 : capacity = 16 * Pow2(k)
            /\ capacity > 16 => a.size > capacity \div 2
    /\ \A d \in ArrLits : data = d.text =>
         /\ \A i \in Building :
              i = 3 => LET a == heap[stack[i].array] IN
                       \A j \in 1..a.size :
                          TreeOf(heap, heap[a.values].cells[j]) = d.tree.kids[j]
         /\ phase = "returned" => (~error /\ TreeOf(heap, result) = d.tree)

C7_Witness ==
    /\ phase = "returned"
    /\ ~error
    /\ heap[result].type = "ARRAY"
    /\ heap[heap[result].u].size > 32
    /\ Len(heap[heap[heap[result].u].values].cells) = 64

\* C8: on t, f or n the dispatcher yields True, False or Null and moves the
\* cursor by 4, 5 or 4 bytes, reading none of them and leaving the flag
\* clear; "tXXX" is accepted as True.
C8_LiteralSkip ==
    /\ [](phase = "returned" /\ data = <<"t", "X", "X", "X">>
            => ~error /\ TreeOf(heap, result) = Tree("TRUE"))
    /\ [][\A c \in {"t", "f", "n"} :
            (At("parse_value", "V1") /\ pos < len /\ data[pos + 1] = c) =>
                /\ pos' = pos + (IF c = "f" THEN 5 ELSE 4)
                /\ ~error'
                /\ oob_read' = oob_read
                /\ stack' = Pop
                /\ ret' = Len(heap')
                /\ heap'[ret'].live
                /\ heap'[ret'].type = (CASE c = "t" -> "TRUE" [] c = "f" -> "FALSE"
                                         [] OTHER -> "NULL")]_vars

C8_Witness ==
    /\ phase = "returned"
    /\ data = <<"t", "X", "X", "X">>
    /\ ~error
    /\ heap[result].type = "TRUE"

\* C9: once the failure flag is set it stays set, and the cursor stays where
\* it is, until parse_json returns: every later step of the parse only
\* returns from the innermost function.
C9_StickyFlag ==
    [][(phase = "parsing" /\ error) =>
          (error' /\ pos' = pos /\ Len(stack') = Len(stack) - 1)]_vars

C9_Witness == phase = "parsing" /\ error /\ Len(stack) >= 6

\* C10: every read of the input buffer is at an index below len.
C10_ReadsInBounds == ~oob_read

====
